---- MODULE Spec2Model ----
(***************************************************************************)
(* A model of triangulation/MeteorApplyAstrometry.py.                      *)
(*                                                                         *)
(* Three specifications share the module, each leaving the variables of    *)
(* the other two idle:                                                     *)
(*   SpecPair  findPointTimePairs, one action per iteration of its outer   *)
(*             loop (the inner scan over station B is computed whole), so  *)
(*             that the min_index carried from one A point to the next is  *)
(*             part of the state;                                          *)
(*   SpecPipe  XY2CorrectedRADec, one action per stage it calls;           *)
(*   SpecMag   the arithmetic of calculateMagnitudes.                      *)
(*                                                                         *)
(* Julian dates are floats in days.  Here a time is an integer number of   *)
(* ticks, TicksPerDay ticks to a day, and a quantity in days is compared   *)
(* as an exact fraction; floating-point rounding is not modelled.          *)
(***************************************************************************)
EXTENDS Integers, Sequences, FiniteSets

VARIABLES stA, stB, max_dt, pIdx, min_index, point_pairs, pPc

VARIABLES calib, time_data, X_data, Y_data, level_data,
          X_corrected, Y_corrected, levels_corrected,
          az_data, alt_data, JD_data, RA_data, dec_data,
          duration, magnitude_data, pc

VARIABLES log_level_data, mag_0, mag_lev, log_v_ratio, mag_out, mPc

pairVars == <<stA, stB, max_dt, pIdx, min_index, point_pairs, pPc>>

inputVars == <<calib, time_data, X_data, Y_data, level_data>>

stageVars == <<X_corrected, Y_corrected, levels_corrected,
               az_data, alt_data, JD_data, RA_data, dec_data,
               duration, magnitude_data>>

pipeVars == <<inputVars, stageVars, pc>>

magVars == <<log_level_data, mag_0, mag_lev, log_v_ratio, mag_out, mPc>>

vars == <<pairVars, pipeVars, magVars>>

----------------------------------------------------------------------------
(* Bounds of the pairing model *)

MaxLenA == 2
MaxLenB == 3
MaxTick == 2
MaxDt == 1

\* Half a second: the finest time step of the modelled stations.
TicksPerDay == 2 * 60 * 60 * 24

Ticks == 0..MaxTick

SeqsUpTo(S, n) == UNION {[1..k -> S] : k \in 0..n}

\* A station point (jd, ra, dec, mag): its time, and its payload, which the
\* pairing never reads, stood for by the point's position in the station.
MakePoints(times) == [k \in 1..Len(times) |-> [jd |-> times[k], tag |-> k]]

Abs(x) == IF x < 0 THEN -x ELSE x

----------------------------------------------------------------------------
(* findPointTimePairs *)

\* max_dt = float(max_dt)/60/60/24, kept as the fraction <<numerator, denominator>>
ThresholdDays_IntDiv(dt) == <<((dt \div 60) \div 60) \div 24, 1>>
ThresholdDays(dt) == <<dt, 60 * 60 * 24>>

\* diff = abs(point1[0] - point2[0]), in ticks
TimeDiff(p1, p2) == Abs(p1.jd - p2.jd)

\* min_diff < max_dt: min_diff ticks are min_diff/TicksPerDay days
WithinThreshold(diffTicks, thr) == diffTicks * thr[2] < thr[1] * TicksPerDay

\* The inner loop over enumerate(station_obj2.points) from position k (0-based)
\* on, with the running (min_index, min_diff).
RECURSIVE Scan(_, _, _, _, _)
Scan(point1, B, k, mi, md) ==
    IF k >= Len(B) THEN <<mi, md>>
    ELSE LET diff == TimeDiff(point1, B[k + 1])
         IN  IF diff < md THEN Scan(point1, B, k + 1, k, diff)
                          ELSE Scan(point1, B, k + 1, mi, md)

\* One A point: min_diff seeded from B[min_index], then the scan of all of B.
ClosestInB_ForwardOnly(point1, B, hint) ==
    Scan(point1, B, hint, hint, TimeDiff(point1, B[hint + 1]))
ClosestInB_ResetHint(point1, B, hint) ==
    Scan(point1, B, 0, 0, TimeDiff(point1, B[1]))
ClosestInB(point1, B, hint) ==
    Scan(point1, B, 0, hint, TimeDiff(point1, B[hint + 1]))

PairInit ==
    /\ stA \in {MakePoints(t) : t \in SeqsUpTo(Ticks, MaxLenA)}
    /\ stB \in {MakePoints(t) : t \in SeqsUpTo(Ticks, MaxLenB)}
    /\ max_dt \in 0..MaxDt
    /\ pIdx = 0
    /\ min_index = 0
    /\ point_pairs = <<>>
    /\ pPc = "loop"

\* station_obj2.points[min_index] with no such element
RaiseIndexError ==
    /\ pPc = "loop"
    /\ pIdx < Len(stA)
    /\ min_index >= Len(stB)
    /\ pPc' = "IndexError"
    /\ UNCHANGED <<stA, stB, max_dt, pIdx, min_index, point_pairs>>
    /\ UNCHANGED <<pipeVars, magVars>>

\* One iteration of "for point1 in station_obj1.points"
ProcessPoint ==
    /\ pPc = "loop"
    /\ pIdx < Len(stA)
    /\ min_index < Len(stB)
    /\ LET point1 == stA[pIdx + 1]
           r == ClosestInB(point1, stB, min_index)
       IN  /\ min_index' = r[1]
           /\ point_pairs' =
                 IF WithinThreshold(r[2], ThresholdDays(max_dt))
                 THEN Append(point_pairs, <<point1, stB[r[1] + 1]>>)
                 ELSE point_pairs
    /\ pIdx' = pIdx + 1
    /\ UNCHANGED <<stA, stB, max_dt, pPc>>
    /\ UNCHANGED <<pipeVars, magVars>>

\* return point_pairs
ReturnPairs ==
    /\ pPc = "loop"
    /\ pIdx = Len(stA)
    /\ pPc' = "returned"
    /\ UNCHANGED <<stA, stB, max_dt, pIdx, min_index, point_pairs>>
    /\ UNCHANGED <<pipeVars, magVars>>

PairNext == RaiseIndexError \/ ProcessPoint \/ ReturnPairs

PairIdle ==
    /\ stA = <<>>
    /\ stB = <<>>
    /\ max_dt = 0
    /\ pIdx = 0
    /\ min_index = 0
    /\ point_pairs = <<>>
    /\ pPc = "idle"

----------------------------------------------------------------------------
(* The calibration pipeline: XY2CorrectedRADec and its four stages.        *)
(*                                                                         *)
(* Pixel coordinates, resolutions and polynomial coefficients are          *)
(* integers, chosen so that the rescaling to CIF divides exactly; a        *)
(* corrected level is kept in millionths (LevelUnit) and the vignetting    *)
(* radius in tenths, its square root rounded down.  The trigonometry of    *)
(* XY2altAz, altAz2RADec and calculateMagnitudes is not evaluated: an       *)
(* azimuth, right ascension or magnitude is the term naming the values it  *)
(* is computed from, so two of them are equal only if computed from equal  *)
(* values.  Resolutions and scales of exactly zero, whose IEEE infinities  *)
(* would reach that trigonometry, are outside the calibrations modelled.   *)
(***************************************************************************)

MaxTrack == 3
MaxTime == 2

LevelUnit == 10^6

Zeros(n) == [k \in 1..n |-> 0]

Calibration(xp, yp, xres, yres, fscale) ==
    [x_poly |-> xp, y_poly |-> yp, X_res |-> xres, Y_res |-> yres,
     F_scale |-> fscale, UT_corr |-> 1]

\* Two well-formed calibrations (the first has no distortion at all), and
\* malformed ones: a short x_poly, a long y_poly, negative resolutions, a
\* negative scale.
Calibrations ==
    { Calibration(Zeros(12), Zeros(12), 720, 576, 1),
      Calibration([Zeros(12) EXCEPT ![1] = 2, ![2] = 1],
                  [Zeros(12) EXCEPT ![1] = 2, ![3] = 1], 720, 576, 2),
      Calibration(Zeros(11), Zeros(12), 720, 576, 1),
      Calibration(Zeros(12), Zeros(13), 720, 576, 1),
      Calibration(Zeros(12), Zeros(12), -720, -576, 1),
      Calibration(Zeros(12), Zeros(12), 720, 576, -1) }

\* Detection samples <<x, y, level>>: the image centre, a point beside it, and
\* a point near the corner that lies within 120 units of CIF (192, 192).
Samples == << <<360, 288, 100>>, <<375, 290, 50>>, <<705, 560, 100>> >>

\* The sample at position i of a track that starts with sample number first:
\* the samples in turn, so that neighbouring points of a track differ.
SampleAt(first, i) == Samples[((first + i - 2) % Len(Samples)) + 1]

Times == 0..MaxTime

\* Largest r with r*r <= n, by bisection between lo and hi
RECURSIVE ISqrtIn(_, _, _)
ISqrtIn(n, lo, hi) ==
    IF lo >= hi THEN lo
    ELSE LET mid == (lo + hi + 1) \div 2
         IN  IF mid * mid <= n THEN ISqrtIn(n, mid, hi)
                               ELSE ISqrtIn(n, lo, mid - 1)

ISqrt(n) == ISqrtIn(n, 0, IF n < 46340 THEN n ELSE 46340)

\* (Xdet - X_res/2)/X_scale with X_scale = X_res/384.0 (288.0 for Y)
ScaleToCIF(v, res, cif) == ((v - (res \div 2)) * cif) \div res

\* The square of sqrt((Xdet - 192)**2 + (Ydet - 192)**2)
VignettingRadius2(Xdet, Ydet) == (Xdet - 192) * (Xdet - 192) + (Ydet - 192) * (Ydet - 192)

\* level * (1 + 0.00245*(radius - 120)) when radius > 120, in LevelUnits
VignettingCorrection(level, Xdet, Ydet) ==
    LET r2 == VignettingRadius2(Xdet, Ydet)
    IN  IF r2 > 120 * 120
        THEN level * (LevelUnit + 245 * (ISqrt(r2 * 100) - 1200))
        ELSE level * LevelUnit

\* X_pix, before the division by F_scale
PolyX(p, X, Y) ==
    LET R == ISqrt(X * X + Y * Y)
    IN  X + p[1] + p[2] * X + p[3] * Y + p[4] * X * X + p[5] * X * Y + p[6] * Y * Y
          + p[7] * X * X * X + p[8] * X * X * Y + p[9] * X * Y * Y + p[10] * Y * Y * Y
          + p[11] * X * R + p[12] * Y * R

\* Y_pix, before the division by F_scale
PolyY(q, X, Y) ==
    LET R == ISqrt(X * X + Y * Y)
    IN  Y + q[1] + q[2] * X + q[3] * Y + q[4] * X * X + q[5] * X * Y + q[6] * Y * Y
          + q[7] * X * X * X + q[8] * X * X * Y + q[9] * X * Y * Y + q[10] * Y * Y * Y
          + q[11] * Y * R + q[12] * X * R

\* One pass of the loop of applyFieldCorrection: the corrected point
CorrectPoint(cal, x, y, level) ==
    LET Xdet == ScaleToCIF(x, cal.X_res, 384)
        Ydet == ScaleToCIF(y, cal.Y_res, 288)
    IN  [x     |-> PolyX(cal.x_poly, Xdet, Ydet) \div cal.F_scale,
         y     |-> PolyY(cal.y_poly, Xdet, Ydet) \div cal.F_scale,
         level |-> VignettingCorrection(level, Xdet, Ydet)]

\* x_poly[11] or y_poly[11] of a shorter sequence, read for the first point
FieldCorrectionRaises(cal, X) ==
    /\ Len(X) > 0
    /\ (Len(cal.x_poly) < 12 \/ Len(cal.y_poly) < 12)

applyFieldCorrection(cal, X, Y, L) ==
    [i \in 1..Len(X) |-> CorrectPoint(cal, X[i], Y[i], L[i])]

\* One pass of the loop of XY2altAz: azimuth and altitude of a corrected point
SkyPoint(X_pix, Y_pix) ==
    [az  |-> [of |-> "azimuth", X_pix |-> X_pix, Y_pix |-> Y_pix],
     alt |-> [of |-> "altitude", X_pix |-> X_pix, Y_pix |-> Y_pix]]

XY2altAz(Xc, Yc) == [i \in 1..Len(Xc) |-> SkyPoint(Xc[i], Yc[i])]

\* The external date2JD(Y, M, D, h, m, s, ms, UT_corr): a timestamp in ticks,
\* moved by the UT correction
date2JD(t, UT_corr) == t - UT_corr

\* One pass of the loop of altAz2RADec
EquatorialPoint(cal, t, azimuth, altitude) ==
    LET JD == date2JD(t, cal.UT_corr)
    IN  [JD  |-> JD,
         RA  |-> [of |-> "RA", JD |-> JD, az |-> azimuth, alt |-> altitude],
         dec |-> [of |-> "dec", az |-> azimuth, alt |-> altitude]]

altAz2RADec_FirstTime(cal, times, az, alt) ==
    [i \in 1..Len(az) |-> EquatorialPoint(cal, times[1], az[i], alt[i])]
altAz2RADec(cal, times, az, alt) ==
    [i \in 1..Len(az) |-> EquatorialPoint(cal, times[i], az[i], alt[i])]

\* duration = (JD_data[-1] - JD_data[0])*86400, in seconds, as the fraction
\* <<numerator, denominator>> (a JD of the model is in ticks)
Duration(JD) == <<(JD[Len(JD)] - JD[1]) * 86400, TicksPerDay>>

\* The lightcurve: each magnitude from its level and the angular velocity
\* length / float(duration) of the whole track
calculateMagnitudes(levels, ra_beg, ra_end, dec_beg, dec_end, dur) ==
    LET length == [of |-> "length", ra_beg |-> ra_beg, ra_end |-> ra_end,
                   dec_beg |-> dec_beg, dec_end |-> dec_end]
        angular_v == [of |-> "angular_v", length |-> length, duration |-> dur]
    IN  [i \in 1..Len(levels) |->
            [of |-> "magnitude", level |-> levels[i], angular_v |-> angular_v]]

Field(seq, f) == [i \in 1..Len(seq) |-> seq[i][f]]

PipeInit ==
    /\ calib \in Calibrations
    /\ time_data \in SeqsUpTo(Times, MaxTrack)
    /\ \E first \in 1..Len(Samples) :
          /\ X_data = [i \in 1..Len(time_data) |-> SampleAt(first, i)[1]]
          /\ Y_data = [i \in 1..Len(time_data) |-> SampleAt(first, i)[2]]
          /\ level_data = [i \in 1..Len(time_data) |-> SampleAt(first, i)[3]]
    /\ X_corrected = <<>> /\ Y_corrected = <<>> /\ levels_corrected = <<>>
    /\ az_data = <<>> /\ alt_data = <<>>
    /\ JD_data = <<>> /\ RA_data = <<>> /\ dec_data = <<>>
    /\ duration = <<>>
    /\ magnitude_data = <<>>
    /\ pc = "start"

\* applyFieldCorrection raises IndexError on a short polynomial
CorrectFieldRaises ==
    /\ pc = "start"
    /\ FieldCorrectionRaises(calib, X_data)
    /\ pc' = "IndexError"
    /\ UNCHANGED <<inputVars, stageVars>>
    /\ UNCHANGED <<pairVars, magVars>>

\* Apply field correction
CorrectField ==
    /\ pc = "start"
    /\ ~FieldCorrectionRaises(calib, X_data)
    /\ LET c == applyFieldCorrection(calib, X_data, Y_data, level_data)
       IN  /\ X_corrected' = Field(c, "x")
           /\ Y_corrected' = Field(c, "y")
           /\ levels_corrected' = Field(c, "level")
    /\ pc' = "corrected"
    /\ UNCHANGED <<inputVars, az_data, alt_data, JD_data, RA_data, dec_data,
                   duration, magnitude_data>>
    /\ UNCHANGED <<pairVars, magVars>>

\* Convert XY image coordinates to azimuth and altitude
ProjectToSky ==
    /\ pc = "corrected"
    /\ LET s == XY2altAz(X_corrected, Y_corrected)
       IN  /\ az_data' = Field(s, "az")
           /\ alt_data' = Field(s, "alt")
    /\ pc' = "projected"
    /\ UNCHANGED <<inputVars, X_corrected, Y_corrected, levels_corrected,
                   JD_data, RA_data, dec_data, duration, magnitude_data>>
    /\ UNCHANGED <<pairVars, magVars>>

\* Convert azimuth and altitude data to right ascension and declination
ConvertToEquatorial ==
    /\ pc = "projected"
    /\ LET e == altAz2RADec(calib, time_data, az_data, alt_data)
       IN  /\ JD_data' = Field(e, "JD")
           /\ RA_data' = Field(e, "RA")
           /\ dec_data' = Field(e, "dec")
    /\ pc' = "converted"
    /\ UNCHANGED <<inputVars, X_corrected, Y_corrected, levels_corrected,
                   az_data, alt_data, duration, magnitude_data>>
    /\ UNCHANGED <<pairVars, magVars>>

\* RA_data[0] of an empty track
TrackEndsRaise ==
    /\ pc = "converted"
    /\ Len(RA_data) = 0
    /\ pc' = "IndexError"
    /\ UNCHANGED <<inputVars, stageVars>>
    /\ UNCHANGED <<pairVars, magVars>>

\* The beginning and ending points, the duration, the magnitudes, and the return
EstimateMagnitudes ==
    /\ pc = "converted"
    /\ Len(RA_data) > 0
    /\ duration' = Duration(JD_data)
    /\ magnitude_data' =
          calculateMagnitudes(levels_corrected, RA_data[1], RA_data[Len(RA_data)],
                              dec_data[1], dec_data[Len(dec_data)], duration')
    /\ pc' = "returned"
    /\ UNCHANGED <<inputVars, X_corrected, Y_corrected, levels_corrected,
                   az_data, alt_data, JD_data, RA_data, dec_data>>
    /\ UNCHANGED <<pairVars, magVars>>

PipeNext ==
    \/ CorrectFieldRaises
    \/ CorrectField
    \/ ProjectToSky
    \/ ConvertToEquatorial
    \/ TrackEndsRaise
    \/ EstimateMagnitudes

PipeIdle ==
    /\ calib = Calibration(<<>>, <<>>, 0, 0, 0)
    /\ time_data = <<>> /\ X_data = <<>> /\ Y_data = <<>> /\ level_data = <<>>
    /\ X_corrected = <<>> /\ Y_corrected = <<>> /\ levels_corrected = <<>>
    /\ az_data = <<>> /\ alt_data = <<>>
    /\ JD_data = <<>> /\ RA_data = <<>> /\ dec_data = <<>>
    /\ duration = <<>>
    /\ magnitude_data = <<>>
    /\ pc = "idle"

----------------------------------------------------------------------------
(* calculateMagnitudes, numerically.                                       *)
(*                                                                         *)
(* The function reads a level only through log10(level), and the angular   *)
(* velocity only through its ratio to w_pix; here a level is given by      *)
(* log10(level) and the velocity by log10(angular_v/w_pix), both in        *)
(* tenths, mag_0 and mag_lev are in tenths, and a magnitude is in          *)
(* hundredths.                                                             *)
(***************************************************************************)

MaxLevels == 2
LevelSpan == 2

\* log10(level) = 3.2, in tenths
LogBoundary == 32

LogLevels == (LogBoundary - LevelSpan)..(LogBoundary + LevelSpan)

\* mag_0*np.log10(level) + mag_lev
LinearBranch(l, m0, ml) == m0 * l + 10 * ml

\* -20*np.log10(level) + 64.5
SaturationBranch(l) == -200 * l + 6450

\* The non-angular-velocity-corrected magnitude
UncorrectedMagnitude_StrictBoundary(l, m0, ml) ==
    IF l < LogBoundary THEN LinearBranch(l, m0, ml) ELSE SaturationBranch(l)
UncorrectedMagnitude(l, m0, ml) ==
    IF l <= LogBoundary THEN LinearBranch(l, m0, ml) ELSE SaturationBranch(l)

\* 2.5*np.log10(angular_v/w_pix), subtracted when angular_v > w_pix
AngularCorrection(v) == IF v > 0 THEN 25 * v ELSE 0

MagnitudeOf(l, m0, ml, v) == UncorrectedMagnitude(l, m0, ml) - AngularCorrection(v)

MagInit ==
    /\ log_level_data \in SeqsUpTo(LogLevels, MaxLevels) \ {<<>>}
    /\ mag_0 \in {-25, -20}
    /\ mag_lev \in {85, 80, 69}
    /\ log_v_ratio \in {-5, 0, 5}
    /\ mag_out = <<>>
    /\ mPc = "start"

\* Go through all levels of a meteor
ComputeMagnitudes ==
    /\ mPc = "start"
    /\ mag_out' = [i \in 1..Len(log_level_data) |->
                      MagnitudeOf(log_level_data[i], mag_0, mag_lev, log_v_ratio)]
    /\ mPc' = "returned"
    /\ UNCHANGED <<log_level_data, mag_0, mag_lev, log_v_ratio>>
    /\ UNCHANGED <<pairVars, pipeVars>>

MagNext == ComputeMagnitudes

MagIdle ==
    /\ log_level_data = <<>>
    /\ mag_0 = 0
    /\ mag_lev = 0
    /\ log_v_ratio = 0
    /\ mag_out = <<>>
    /\ mPc = "idle"

MagStart == MagInit /\ PairIdle /\ PipeIdle

SpecMag == MagStart /\ [][MagNext]_vars

PipeStart == PipeInit /\ PairIdle /\ MagIdle

SpecPipe == PipeStart /\ [][PipeNext]_vars

PairStart == PairInit /\ PipeIdle /\ MagIdle

SpecPair == PairStart /\ [][PairNext]_vars

----------------------------------------------------------------------------
(* Properties of findPointTimePairs *)

\* The least |a.time - b'.time| over all points b' of B (B non-empty)
MinDiffTo(a, B) ==
    CHOOSE d \in {TimeDiff(a, B[k]) : k \in 1..Len(B)} :
        \A k \in 1..Len(B) : d <= TimeDiff(a, B[k])

\* The first position of B, in scan order, that is closest in time to a
FirstClosest(a, B) ==
    CHOOSE k \in 1..Len(B) :
        /\ TimeDiff(a, B[k]) = MinDiffTo(a, B)
        /\ \A j \in 1..(k - 1) : TimeDiff(a, B[j]) > MinDiffTo(a, B)

\* d ticks are strictly less than max_dt/86400 days
StrictlyWithin(d, dt) == d * 86400 < dt * TicksPerDay

FirstsOf(pairs) == [i \in 1..Len(pairs) |-> pairs[i][1]]

\* C1: every returned pair [a, b] has b a point of B attaining the minimum of
\* |a.time - b'.time| over all points b' of B, whatever min_index was carried
\* over from the previous A point.
C1_ClosestOverAllB ==
    \A i \in 1..Len(point_pairs) :
        LET a == point_pairs[i][1]
            b == point_pairs[i][2]
        IN  /\ \E k \in 1..Len(stB) : stB[k] = b
            /\ \A k \in 1..Len(stB) : TimeDiff(a, b) <= TimeDiff(a, stB[k])

\* C1 witness: two A points were paired and the second match lies before the
\* first in B, so the carried min_index pointed past the closest point.
C1_Witness ==
    /\ pPc = "returned"
    /\ Len(point_pairs) = 2
    /\ point_pairs[2][2].tag < point_pairs[1][2].tag
    /\ TimeDiff(point_pairs[2][1], stB[point_pairs[1][2].tag])
          > TimeDiff(point_pairs[2][1], point_pairs[2][2])

\* C2: the call ends without error, and the output holds exactly the A points
\* whose minimum time difference to B is strictly less than max_dt/86400, one
\* pair each, in A's order; every other A point is dropped.
C2_QualifyingPointsPaired ==
    /\ pPc # "IndexError"
    /\ pPc = "returned" =>
          FirstsOf(point_pairs) =
             SelectSeq(stA, LAMBDA a : /\ Len(stB) > 0
                                       /\ StrictlyWithin(MinDiffTo(a, stB), max_dt))

\* The part of C2 that the code does satisfy: whenever B has a point, the A
\* points processed so far that qualify are exactly the ones paired, in order.
C2_HoldsForNonEmptyB ==
    Len(stB) > 0 =>
        /\ pPc # "IndexError"
        /\ FirstsOf(point_pairs) =
              SelectSeq(SubSeq(stA, 1, pIdx),
                        LAMBDA a : StrictlyWithin(MinDiffTo(a, stB), max_dt))

\* C3 (as claimed): the B point of every pair is the first one, in B's scan
\* order, among the B points equally closest to the A point.
C3_FirstInScanOrder ==
    \A i \in 1..Len(point_pairs) :
        point_pairs[i][2] = stB[FirstClosest(point_pairs[i][1], stB)]

\* The position the code settles on for the i-th A point: the position carried
\* over from the (i-1)-th A point (the first position for i = 1) when that B
\* point is among the closest ones, and the first closest position otherwise.
RECURSIVE ChosenIndex(_)
ChosenIndex(i) ==
    LET h == IF i = 1 THEN 1 ELSE ChosenIndex(i - 1)
    IN  IF TimeDiff(stA[i], stB[h]) = MinDiffTo(stA[i], stB)
        THEN h
        ELSE FirstClosest(stA[i], stB)

\* C3 (amended): among equally closest B points the one chosen is the B point
\* found closest to the previous A point (B's first point for the first A
\* point) when it is one of them, and otherwise the first in B's scan order.
C3_CarriedIndexWinsTies ==
    Len(stB) > 0 =>
        /\ pIdx > 0 => min_index + 1 = ChosenIndex(pIdx)
        /\ \A i \in 1..Len(point_pairs) :
              point_pairs[i][2] = stB[ChosenIndex(point_pairs[i][1].tag)]

\* C3 witness: a returned pair whose B point is equally close as an earlier B
\* point, chosen because it was the match of the previous A point.
C3_Witness ==
    /\ pPc = "returned"
    /\ \E i \in 1..Len(point_pairs) :
          /\ point_pairs[i][1].tag > 1
          /\ point_pairs[i][2].tag > FirstClosest(point_pairs[i][1], stB)

\* C7: the call never ends in an error, whatever A and B are (B empty included).
C7_NeverRaises == pPc # "IndexError"

AllHaveTwins == \A i \in 1..Len(stA) : \E k \in 1..Len(stB) : stB[k].jd = stA[i].jd

\* C8: if every A point has a B point of exactly its time and max_dt > 0, the
\* call returns one pair per A point, in A's order, the two times of each equal.
C8_ExactTwins ==
    (AllHaveTwins /\ max_dt > 0) =>
        /\ pPc # "IndexError"
        /\ pPc = "returned" =>
              /\ FirstsOf(point_pairs) = stA
              /\ \A i \in 1..Len(point_pairs) :
                    point_pairs[i][2].jd = point_pairs[i][1].jd

\* C8 witness: two A points with twins in a B that also holds a point that is
\* no twin, returned with max_dt > 0.
C8_Witness ==
    /\ pPc = "returned"
    /\ AllHaveTwins
    /\ max_dt > 0
    /\ Len(stA) = 2
    /\ Len(point_pairs) = 2
    /\ \E k \in 1..Len(stB) : \A i \in 1..Len(stA) : stB[k].jd # stA[i].jd

----------------------------------------------------------------------------
(* Properties of the calibration pipeline *)

StageRan == pc \in {"corrected", "projected", "converted", "returned"}

\* C4 (as claimed): with x_poly = y_poly = twelve zeros, X_res = 720,
\* Y_res = 576 and F_scale = 1, the single point (x = 360, y = 288,
\* level = 100) is corrected to x_corr = 0, y_corr = 0 and level = 100.
C4_CentreLevelUnchanged ==
    ( /\ StageRan
      /\ calib = Calibration(Zeros(12), Zeros(12), 720, 576, 1)
      /\ X_data = <<360>> /\ Y_data = <<288>> /\ level_data = <<100>> )
    => /\ X_corrected = <<0>>
       /\ Y_corrected = <<0>>
       /\ levels_corrected = <<100 * LevelUnit>>

\* The part of C4 that the code does satisfy: the corrected coordinates of
\* the image centre are (0, 0).
C4_CentreCoordinates ==
    ( /\ StageRan
      /\ calib = Calibration(Zeros(12), Zeros(12), 720, 576, 1)
      /\ X_data = <<360>> /\ Y_data = <<288>> /\ level_data = <<100>> )
    => /\ X_corrected = <<0>>
       /\ Y_corrected = <<0>>

\* A track that is empty, or whose last time is not after its first (a single
\* point included), or whose timestamps decrease somewhere
DegenerateTrack(times) ==
    \/ Len(times) = 0
    \/ times[Len(times)] <= times[1]
    \/ \E i \in 1..(Len(times) - 1) : times[i + 1] < times[i]

MalformedCalibration(cal) ==
    \/ Len(cal.x_poly) # 12
    \/ Len(cal.y_poly) # 12
    \/ cal.X_res <= 0
    \/ cal.Y_res <= 0
    \/ cal.F_scale <= 0

\* C5: XY2CorrectedRADec never returns for a degenerate track: no magnitude
\* sequence is computed from a zero or negative duration (stated for the
\* well-formed calibrations, so that the track alone is at fault).
C5_DegenerateTrackRejected ==
    (pc = "returned" /\ ~MalformedCalibration(calib)) =>
        /\ ~DegenerateTrack(time_data)
        /\ duration[1] > 0

\* C6: from a malformed calibration no corrected point, sky point or
\* equatorial point is ever computed, and the pipeline does not return.
C6_MalformedCalibrationRejected ==
    MalformedCalibration(calib) =>
        /\ X_corrected = <<>> /\ az_data = <<>> /\ RA_data = <<>>
        /\ magnitude_data = <<>>
        /\ pc # "returned"

\* What XY2CorrectedRADec is to return at index i, computed from input point i
\* alone
CorrectedOf(i) == CorrectPoint(calib, X_data[i], Y_data[i], level_data[i])

EquatorialOf(i) ==
    LET c == CorrectedOf(i)
        s == SkyPoint(c.x, c.y)
    IN  EquatorialPoint(calib, time_data[i], s.az, s.alt)

\* The angular velocity of the track, from its first and its last point
AngularVelocityOf(first, last) ==
    [of |-> "angular_v",
     length |-> [of |-> "length", ra_beg |-> first.RA, ra_end |-> last.RA,
                 dec_beg |-> first.dec, dec_end |-> last.dec],
     duration |-> <<(last.JD - first.JD) * 86400, TicksPerDay>>]

\* C9: for a track of n points XY2CorrectedRADec returns four sequences of
\* length n, element i of each derived from input point i (and, for the
\* magnitude, the track's first and last points); a non-degenerate track under
\* a well-formed calibration is never refused.
C9_IndexCorrespondence ==
    /\ pc = "returned" =>
          LET n == Len(time_data)
              eq == [i \in 1..n |-> EquatorialOf(i)]
              av == AngularVelocityOf(eq[1], eq[n])
          IN  /\ Len(JD_data) = n /\ Len(RA_data) = n
              /\ Len(dec_data) = n /\ Len(magnitude_data) = n
              /\ \A i \in 1..n :
                    /\ JD_data[i] = eq[i].JD
                    /\ RA_data[i] = eq[i].RA
                    /\ dec_data[i] = eq[i].dec
                    /\ magnitude_data[i] =
                          [of |-> "magnitude", level |-> CorrectedOf(i).level,
                           angular_v |-> av]
    /\ (~DegenerateTrack(time_data) /\ ~MalformedCalibration(calib)) => pc # "IndexError"

\* C9 witness: a returned track of three points, pairwise different in place
\* and time, under a calibration with distortion terms.
C9_Witness ==
    /\ pc = "returned"
    /\ Len(time_data) = 3
    /\ time_data[1] < time_data[2] /\ time_data[2] < time_data[3]
    /\ X_data[1] # X_data[2] /\ X_data[2] # X_data[3] /\ X_data[1] # X_data[3]
    /\ ~MalformedCalibration(calib)
    /\ calib.x_poly # Zeros(12)
    /\ Len(magnitude_data) = 3

----------------------------------------------------------------------------
(* Properties of calculateMagnitudes *)

\* C10 (as claimed): the magnitude returned for a level with log10(level) = 3.2
\* is the one the saturation branch gives there, whatever mag_0 and mag_lev are.
C10_BranchesAgree ==
    mPc = "returned" =>
        \A i \in 1..Len(log_level_data) :
            log_level_data[i] = LogBoundary =>
                mag_out[i] = SaturationBranch(LogBoundary) - AngularCorrection(log_v_ratio)

\* C10 (amended): at log10(level) = 3.2 the linear branch is the one used, and
\* it gives the saturation branch's magnitude exactly when
\* 3.2*mag_0 + mag_lev = 0.5.
C10_AgreeIffCalibrated ==
    mPc = "returned" =>
        \A i \in 1..Len(log_level_data) :
            log_level_data[i] = LogBoundary =>
                /\ mag_out[i] = LinearBranch(LogBoundary, mag_0, mag_lev)
                                   - AngularCorrection(log_v_ratio)
                /\ (mag_out[i] = SaturationBranch(LogBoundary) - AngularCorrection(log_v_ratio))
                      <=> (32 * mag_0 + 10 * mag_lev = 50)

\* C10 witness: a level at the boundary was converted under a calibration
\* whose branches do not meet there, and the velocity correction applied.
C10_Witness ==
    /\ mPc = "returned"
    /\ \E i \in 1..Len(log_level_data) : log_level_data[i] = LogBoundary
    /\ 32 * mag_0 + 10 * mag_lev # 50
    /\ log_v_ratio > 0

====
